---- MODULE Spec2Model ----
(* Model of the portfolio's components that hold state:                    *)
(*   - the GitHub activity aggregator (src/src/components/GitHubActivity.tsx) *)
(*   - the blog content loader        (src/src/utils/blogLoader.ts)        *)
(*   - the Blog section               (src/src/sections/Testimonials.tsx)  *)
(*   - the contact form               (src/src/sections/Contact.tsx)       *)
EXTENDS Integers, Sequences, FiniteSets, TLC

(***************************************************************************)
(* Bounds of the model                                                     *)
(***************************************************************************)
\* Longest repository list for which every combination of entries is drawn.
MaxSmall == 2
\* Longest repository list drawn at all (lists beyond MaxSmall are uniform).
MaxRepos == 7
\* Number of lookups of one run that the contributor call does not settle
\* with the account's contribution count; they are among the first
\* MaxDetours active repositories.
MaxDetours == 1
\* Longest events list.
MaxEvents == 2
\* Number of submissions of the contact form that are under way at a time:
\* in their delay, or with their reset timer pending.
MaxSubmits == 2
\* Number of getBlogPost calls of the Blog section that are pending at a
\* time.
MaxPending == 3
\* Number of fetchGitHubData runs of one mounted component.
MaxRuns == 3
\* Largest number of owned repositories of the run whose lookups are
\* counted.
MaxOwned == 16

(***************************************************************************)
(* Program constants of GitHubActivity.tsx                                 *)
(***************************************************************************)
ActiveLimit == 15
RecentLimit == 6
LowCommits == 10
PerPage == 100
FirstPerPage == 1
MinEstimate == 10

Null == [null |-> TRUE]

(***************************************************************************)
(* Pure helpers                                                            *)
(***************************************************************************)
RECURSIVE Filter(_, _)
\* Array.prototype.filter(repo => !repo.fork)
Filter(s, keepFork) ==
  IF s = <<>> THEN <<>>
  ELSE IF Head(s).fork = keepFork
       THEN <<Head(s)>> \o Filter(Tail(s), keepFork)
       ELSE Filter(Tail(s), keepFork)

\* Faulty variant of NonForks: the forks are not filtered out.
NonForksKeepsForks(data) == data

NonForks(data) == Filter(data, FALSE)

RECURSIVE SumForks(_)
\* publicRepos.reduce((sum, repo) => sum + repo.forks_count, 0)
SumForks(s) ==
  IF s = <<>> THEN 0 ELSE Head(s).forks_count + SumForks(Tail(s))

RECURSIVE InsertByUpdated(_, _)
\* position of r in an already sorted list: after every entry that is
\* at least as recent (the sort is stable)
InsertByUpdated(r, s) ==
  IF s = <<>> THEN <<r>>
  ELSE IF Head(s).updated_at >= r.updated_at
       THEN <<Head(s)>> \o InsertByUpdated(r, Tail(s))
       ELSE <<r>> \o s

RECURSIVE SortByUpdated(_)
\* Array.prototype.sort((a, b) => b.updated_at - a.updated_at): stable,
\* most recently updated first
SortByUpdated(s) ==
  IF s = <<>> THEN <<>>
  ELSE InsertByUpdated(s[Len(s)], SortByUpdated(SubSeq(s, 1, Len(s) - 1)))

\* Array.prototype.slice(0, n)
Slice(s, n) == SubSeq(s, 1, IF Len(s) < n THEN Len(s) ELSE n)

Max(a, b) == IF a >= b THEN a ELSE b

\* Math.max(10, Math.floor(repoAge * 0.3))
EstimateCommits(ageDays) == Max(MinEstimate, (ageDays * 3) \div 10)

\* Faulty variant of LastPageCount: the last page is counted as a full page
\* too.
LastPageCountFullPages(lastPage, k) == lastPage * PerPage + k

\* (lastPage - 1) * 100 + lastPageCommits.length
LastPageCount(lastPage, k) == (lastPage - 1) * PerPage + k

(***************************************************************************)
(* Upstream data the run may meet                                          *)
(***************************************************************************)
ForkCounts == {0, 2}
ContribVals == {3, 42}
AgeDays == {0, 50}
UpdatedAts == {1, 2}
LastPages == {1, 2}
LastCounts == {0, 1}

\* One entry of the repository-list response, without its name. A forked
\* entry has forks of its own and is the most recently updated.
RepoKinds ==
  {k \in [fork : BOOLEAN, forks_count : ForkCounts, updated_at : UpdatedAts] :
     k.fork => (k.forks_count = 2 /\ k.updated_at = 2)}

\* Every repository list of at most MaxSmall entries, in any order.
SmallLists ==
  UNION {{[i \in 1..n |->
             [name |-> i, fork |-> kinds[i].fork,
              forks_count |-> kinds[i].forks_count,
              stargazers_count |-> 10 * i,
              updated_at |-> kinds[i].updated_at]]
          : kinds \in [1..n -> RepoKinds]} : n \in 0..MaxSmall}

\* Longer lists: n owned repositories, most recently updated first, with
\* the same fork count each.
LongLists ==
  {[i \in 1..n |->
      [name |-> i, fork |-> FALSE, forks_count |-> f,
       stargazers_count |-> 10 * i, updated_at |-> n - i + 1]]
   : n \in (MaxSmall + 1)..MaxRepos, f \in ForkCounts}

\* What upstream holds for one account: the repository list and the
\* contribution count the contributor lists report for the account.
Upstreams ==
  {[repos |-> l, contributions |-> [i \in 1..Len(l) |-> c]]
   : l \in SmallLists \cup LongLists, c \in ContribVals}

\* An event of the public-events response: its type and the length of
\* payload.commits (0 when the payload carries none).
EventKinds ==
  {[type |-> "PushEvent", commits |-> 6], [type |-> "PushEvent", commits |-> 0],
   [type |-> "WatchEvent", commits |-> 6]}
EventLists == UNION {[1..n -> EventKinds] : n \in 0..MaxEvents}

(***************************************************************************)
(* State of the GitHubActivity component and of one fetchGitHubData run    *)
(***************************************************************************)
VARIABLES
  pc,            \* position of fetchGitHubData
  stats,         \* useState<GitHubStats | null>
  loading,       \* useState(true)
  calls,         \* number of fetches issued, per endpoint
  responses,     \* what the profile, repository-list and events calls returned
  reposData,     \* const reposData
  eventsData,    \* const eventsData
  publicRepos,   \* const publicRepos (sorted in place by the active-set sort)
  totalForks,    \* const totalForks
  activeRepos,   \* const activeRepos
  commitPromises,\* one record per active repository: its lookup's position,
                 \* what its calls delivered and what it returned
  totalCommits,  \* let totalCommits
  contributions, \* upstream: the account's contributions per repository name
  detours,       \* lookups the contributor call did not settle
  path           \* which setStats the run went through

ghVars ==
  <<pc, stats, loading, calls, responses, reposData, eventsData, publicRepos,
    totalForks,
    activeRepos, commitPromises, totalCommits, contributions, detours, path>>

\* State of the blog loader (blogLoader.ts)
VARIABLES
  blogMetadata,  \* const blogMetadata
  listing,       \* what the latest getBlogPosts() returned
  listedAt,      \* the number of getBlogPost calls made before it
  inFlight,      \* per id, the content fetches awaiting their response
  fetches,       \* number of content fetches issued
  loads,         \* number of getBlogPost calls
  returned       \* the latest getBlogPost call to resolve: its id, what the
                 \* content fetch delivered and what the call returned

blogVars ==
  <<blogMetadata, listing, listedAt, inFlight, fetches, loads, returned>>

\* State of the Blog section (sections/Testimonials.tsx)
VARIABLES
  selectedPostId,\* useState<string | null>(null)
  selectedPost,  \* useState<BlogPost | null>(null)
  loadingPost,   \* useState(false)
  postLoads      \* the getBlogPost calls of the effect that have not settled

sectionVars == <<selectedPostId, selectedPost, loadingPost, postLoads>>

\* State of the contact form (sections/Contact.tsx)
VARIABLES
  formData,      \* useState<FormState>
  errors,        \* useState<FormErrors>
  touched,       \* useState<Record<string, boolean>>
  submitState,   \* useState<SubmitState>('idle')
  submissions,   \* the handleSubmit calls waiting in their 1500 ms delay
  resetTimers,   \* the 3000 ms timers set and not yet fired
  location       \* the mailto links window.location.href was set to

contactVars ==
  <<formData, errors, touched, submitState, submissions, resetTimers,
    location>>

\* The GitHubActivity component under a changing username prop: stats and
\* loading are the component's, every run of the effect has its own position
VARIABLES
  username,      \* the prop of the latest render
  runs           \* the fetchGitHubData calls made, in the order of the calls

raceVars == <<username, runs>>

\* One fetchGitHubData run with its lookups counted, not told apart
VARIABLES
  stage,         \* position of the run
  issued,        \* number of fetches issued, per endpoint
  atStage        \* how many lookups wait for which of their calls

countVars == <<stage, issued, atStage>>

pageVars == <<sectionVars, contactVars, raceVars, countVars>>

NoCalls ==
  [user |-> 0, repos |-> 0, contributors |-> 0, commits |-> 0, lastPage |-> 0,
   events |-> 0]

Issue(c, endpoint, n) == [c EXCEPT ![endpoint] = @ + n]

\* setStats of the rate-limited profile check
FallbackUser ==
  [totalCommits |-> 500, totalRepos |-> 20, totalStars |-> 50,
   totalForks |-> 10, recentRepos |-> <<>>]

\* Faulty variant of FallbackRepos: a snapshot of its own.
FallbackReposDiffers ==
  [totalCommits |-> 500, totalRepos |-> 0, totalStars |-> 50,
   totalForks |-> 0, recentRepos |-> <<>>]

\* setStats of the rate-limited repository list
FallbackRepos ==
  [totalCommits |-> 500, totalRepos |-> 20, totalStars |-> 50,
   totalForks |-> 10, recentRepos |-> <<>>]

\* Faulty variant of FallbackCatch: empty numbers instead of the placeholders.
FallbackCatchZeros ==
  [totalCommits |-> 0, totalRepos |-> 0, totalStars |-> 0,
   totalForks |-> 0, recentRepos |-> <<>>]

\* setStats of the top-level catch
FallbackCatch ==
  [totalCommits |-> 500, totalRepos |-> 20, totalStars |-> 50,
   totalForks |-> 10, recentRepos |-> <<>>]

\* Faulty variant of RecentRepos: the slice(0, 6) is missing.
RecentReposUncut(repos) ==
  [i \in 1..Len(repos) |->
     [name |-> repos[i].name, stars |-> repos[i].stargazers_count,
      updated |-> repos[i].updated_at]]

\* publicRepos.slice(0, 6).map(repo => ({name, stars, updated, ...}))
RecentRepos(repos) ==
  [i \in 1..Len(Slice(repos, RecentLimit)) |->
     [name |-> repos[i].name, stars |-> repos[i].stargazers_count,
      updated |-> repos[i].updated_at]]

RECURSIVE SumStars(_)
\* the sum of stargazers_count the faulty variant of NormalStats shows
SumStars(repos) ==
  IF repos = <<>> THEN 0
  ELSE Head(repos).stargazers_count + SumStars(Tail(repos))

\* Faulty variant of NormalStats: the stars are computed, not fixed.
NormalStatsComputed(repos, forks) ==
  [totalCommits |-> 500, totalRepos |-> Len(repos),
   totalStars |-> SumStars(repos), totalForks |-> forks,
   recentRepos |-> RecentRepos(repos)]

\* setStats of the normal path
NormalStats(repos, forks) ==
  [totalCommits |-> 500, totalRepos |-> Len(repos), totalStars |-> 50,
   totalForks |-> forks, recentRepos |-> RecentRepos(repos)]

GhInit ==
  /\ pc = "idle"
  /\ stats = Null
  /\ loading = TRUE
  /\ calls = NoCalls
  /\ responses = [user |-> "none", repos |-> "none", events |-> "none"]
  /\ reposData = <<>>
  /\ eventsData = <<>>
  /\ publicRepos = <<>>
  /\ totalForks = 0
  /\ activeRepos = <<>>
  /\ commitPromises = <<>>
  /\ totalCommits = 0
  /\ contributions = <<>>
  /\ detours = 0
  /\ path = "none"

\* Faulty variant of Catch: the error is thrown on, nothing is set.
CatchRethrows ==
  /\ stats' = stats
  /\ loading' = loading
  /\ path' = "escaped"
  /\ pc' = "done"

\* catch (err) { setStats(fallback); setLoading(false) }
Catch ==
  /\ stats' = FallbackCatch
  /\ loading' = FALSE
  /\ path' = "caught"
  /\ pc' = "done"

\* useEffect: fetchGitHubData() up to its first await
Mount ==
  /\ pc = "idle"
  /\ loading' = TRUE
  /\ calls' = Issue(calls, "user", 1)
  /\ pc' = "awaitUser"
  /\ UNCHANGED <<blogVars, pageVars, responses, reposData, eventsData, stats,
                 publicRepos,
                 totalForks, activeRepos, commitPromises, totalCommits,
                 contributions, detours, path>>

\* userResponse.ok: the repository list is requested
UserOk ==
  /\ pc = "awaitUser"
  /\ calls' = Issue(calls, "repos", 1)
  /\ pc' = "awaitRepos"
  /\ responses' = [responses EXCEPT !.user = "ok"]
  /\ UNCHANGED <<blogVars, pageVars, reposData, eventsData, stats, loading,
                 publicRepos,
                 totalForks, activeRepos, commitPromises, totalCommits,
                 contributions, detours, path>>

\* Faulty variant of UserRateLimited: the return after the fallback is
\* missing, so the repository list is requested.
UserRateLimitedGoesOn ==
  /\ pc = "awaitUser"
  /\ responses' = [responses EXCEPT !.user = "403"]
  /\ stats' = [totalCommits |-> 500, totalRepos |-> 20, totalStars |-> 50,
               totalForks |-> 10, recentRepos |-> <<>>]
  /\ loading' = FALSE
  /\ calls' = Issue(calls, "repos", 1)
  /\ pc' = "awaitRepos"
  /\ UNCHANGED <<blogVars, pageVars, reposData, eventsData,
                 publicRepos, totalForks, activeRepos,
                 commitPromises, totalCommits, contributions, detours, path>>

\* userResponse.status === 403
UserRateLimited ==
  /\ pc = "awaitUser"
  /\ responses' = [responses EXCEPT !.user = "403"]
  /\ stats' = FallbackUser
  /\ loading' = FALSE
  /\ path' = "rateLimited"
  /\ pc' = "done"
  /\ UNCHANGED <<blogVars, pageVars, reposData, eventsData,
                 calls, publicRepos, totalForks,
                 activeRepos, commitPromises, totalCommits, contributions,
                 detours>>

\* any other status (throw new Error('User not found')) or a rejected fetch
UserFailed ==
  /\ pc = "awaitUser"
  /\ \E failure \in {"404", "500", "reject"}  :
       /\ responses' = [responses EXCEPT !.user = failure]
       /\ Catch
  /\ UNCHANGED <<blogVars, pageVars, reposData, eventsData,
                 calls, publicRepos, totalForks,
                 activeRepos, commitPromises, totalCommits, contributions,
                 detours>>

\* The run from a received repository list to the start of the lookups:
\* filter, reduce, sort, slice, map (every lookup issues its contributor
\* call before the first await).
StartLookups(data) ==
  /\ publicRepos' = SortByUpdated(NonForks(data))
  /\ totalForks' = SumForks(NonForks(data))
  /\ activeRepos' = Slice(SortByUpdated(NonForks(data)), ActiveLimit)
  /\ commitPromises' =
       [i \in 1..Len(Slice(SortByUpdated(NonForks(data)), ActiveLimit)) |->
          [st |-> "contributors", value |-> 0, via |-> "none",
           listed |-> "unknown", firstPage |-> "none", lastPage |-> 0,
           lastPageCommits |-> 0, repoAge |-> 0]]
  /\ calls' = Issue(calls, "contributors",
                    Len(Slice(SortByUpdated(NonForks(data)), ActiveLimit)))
  /\ pc' = "awaitLookups"

\* reposResponse.ok and reposResponse.json() is the list upstream holds
ReposOk ==
  /\ pc = "awaitRepos"
  /\ \E up \in Upstreams :
       /\ StartLookups(up.repos)
       /\ reposData' = up.repos
       /\ contributions' = up.contributions
  /\ responses' = [responses EXCEPT !.repos = "ok"]
  /\ UNCHANGED <<blogVars, pageVars, eventsData, stats, loading, totalCommits,
                 detours,
                 path>>

\* reposResponse.status === 403
ReposRateLimited ==
  /\ pc = "awaitRepos"
  /\ responses' = [responses EXCEPT !.repos = "403"]
  /\ stats' = FallbackRepos
  /\ loading' = FALSE
  /\ path' = "rateLimited"
  /\ pc' = "done"
  /\ UNCHANGED <<blogVars, pageVars, reposData, eventsData,
                 calls, publicRepos, totalForks,
                 activeRepos, commitPromises, totalCommits, contributions,
                 detours>>

\* any other status (throw new Error('Failed to fetch repos')), a rejected
\* fetch, a body json() rejects, or a body that is no list (filter throws)
ReposFailed ==
  /\ pc = "awaitRepos"
  /\ \E failure \in {"404", "500", "reject", "badJson", "notAList"}  :
       /\ responses' = [responses EXCEPT !.repos = failure]
       /\ Catch
  /\ UNCHANGED <<blogVars, pageVars, reposData, eventsData,
                 calls, publicRepos, totalForks,
                 activeRepos, commitPromises, totalCommits, contributions,
                 detours>>

RECURSIVE SumFulfilled(_)
\* commitCounts.reduce((sum, result) => sum + (result.value || 0), 0)
SumFulfilled(ps) ==
  IF ps = <<>> THEN 0 ELSE Head(ps).value + SumFulfilled(Tail(ps))

\* the record p of a lookup once it has returned v at the return statement
\* via
Returned(p, v, via) == [p EXCEPT !.st = "done", !.value = v, !.via = via]

\* the lookup of active repository i returns v at the return statement via
Resolve(i, v, via) ==
  commitPromises' = [commitPromises EXCEPT ![i] = Returned(@, v, via)]

Pending(i, st) ==
  /\ pc = "awaitLookups"
  /\ i \in DOMAIN commitPromises
  /\ commitPromises[i].st = st

Detour(i) ==
  /\ detours < MaxDetours
  /\ i <= MaxDetours
  /\ detours' = detours + 1

lookupFrame ==
  <<blogVars, pageVars, pc, stats, loading, responses, reposData, eventsData,
    publicRepos, totalForks,
    activeRepos, totalCommits, contributions, path>>

\* Faulty variant of ContributorsFound: the entry is counted, not its
\* contributions.
ContributorsFoundCountsEntry(i) ==
  /\ Pending(i, "contributors")
  /\ commitPromises' =
       [commitPromises EXCEPT ![i] =
          [Returned(@, 1, "contributions") EXCEPT !.listed = "yes"]]
  /\ UNCHANGED <<blogVars, pageVars, lookupFrame, calls, detours>>

\* Faulty variant of ContributorsFound: the count is not returned and the
\* lookup goes on to Method 2.
ContributorsFoundGoesOn(i) ==
  /\ Pending(i, "contributors")
  /\ commitPromises' =
       [commitPromises EXCEPT ![i].st = "commits", ![i].listed = "yes"]
  /\ calls' = Issue(calls, "commits", 1)
  /\ UNCHANGED <<lookupFrame, detours>>

\* Faulty variant of ContributorsFound: the lookups add their counts to one
\* variable they share and return what it holds.
ContributorsFoundSharedTotal(i) ==
  /\ Pending(i, "contributors")
  /\ commitPromises' =
       [commitPromises EXCEPT ![i] =
          [Returned(@, contributions[activeRepos[i].name]
                         + SumFulfilled(commitPromises), "contributions")
             EXCEPT !.listed = "yes"]]
  /\ UNCHANGED <<blogVars, pageVars, lookupFrame, calls, detours>>

\* contributorsResponse.ok and the account is in the list:
\* return userContributions.contributions
ContributorsFound(i) ==
  /\ Pending(i, "contributors")
  /\ commitPromises' =
       [commitPromises EXCEPT ![i] =
          [Returned(@, contributions[activeRepos[i].name], "contributions")
             EXCEPT !.listed = "yes"]]
  /\ UNCHANGED <<blogVars, pageVars, lookupFrame, calls, detours>>

\* Method 1 gave no count; Method 2 begins: the first commits page is
\* requested
ToCommits(i) ==
  /\ commitPromises' =
       [commitPromises EXCEPT ![i].st = "commits", ![i].listed = "no"]
  /\ calls' = Issue(calls, "commits", 1)

\* contributorsResponse.ok and the account is not in the list
ContributorsMissing(i) ==
  /\ Pending(i, "contributors")
  /\ Detour(i)
  /\ ToCommits(i)
  /\ UNCHANGED lookupFrame

\* !contributorsResponse.ok
ContributorsNotOk(i) ==
  /\ Pending(i, "contributors")
  /\ Detour(i)
  /\ \E status \in {"403", "404"} : ToCommits(i)
  /\ UNCHANGED lookupFrame

\* Faulty variant of ContributorsThrow: the lookup has no catch of its own
\* and the rejection reaches the top-level catch.
ContributorsThrowEscapes(i) ==
  /\ Pending(i, "contributors")
  /\ Detour(i)
  /\ stats' = FallbackCatch
  /\ loading' = FALSE
  /\ path' = "caught"
  /\ pc' = "done"
  /\ UNCHANGED <<blogVars, pageVars, calls, responses, reposData, eventsData,
                 publicRepos,
                 totalForks, activeRepos, commitPromises, totalCommits,
                 contributions>>

\* the contributor fetch rejects, or its body is no list of contributors:
\* catch (err) { return 0 }
ContributorsThrow(i) ==
  /\ Pending(i, "contributors")
  /\ Detour(i)
  /\ \E failure \in {"reject", "badJson", "notAList"} :
       commitPromises' =
         [commitPromises EXCEPT ![i] =
            [Returned(@, 0, "catch") EXCEPT !.listed = "no"]]
  /\ UNCHANGED <<blogVars, pageVars, lookupFrame, calls>>

\* !commitsResponse.ok, an empty first page or a body without a length:
\* return 0
CommitsZero(i) ==
  /\ Pending(i, "commits")
  /\ \E reason \in {"notOk", "empty", "notAList"} :
       commitPromises' =
         [commitPromises EXCEPT ![i] =
            [Returned(@, 0, "zero") EXCEPT !.firstPage = "noCommits"]]
  /\ UNCHANGED <<blogVars, pageVars, lookupFrame, calls, detours>>

\* the commits fetch rejects or json() rejects: catch (err) { return 0 }
CommitsThrow(i) ==
  /\ Pending(i, "commits")
  /\ \E failure \in {"reject", "badJson"} : Resolve(i, 0, "catch")
  /\ UNCHANGED <<blogVars, pageVars, lookupFrame, calls, detours>>

\* a non-empty first page without a Link header, or with one that names
\* no last page: the estimate from the repository's age
CommitsEstimate(i) ==
  /\ Pending(i, "commits")
  /\ \E link \in {"none", "noLast"}, age \in AgeDays :
       commitPromises' =
         [commitPromises EXCEPT ![i] =
            [Returned(@, EstimateCommits(age), "estimate")
               EXCEPT !.firstPage = "some", !.repoAge = age]]
  /\ UNCHANGED <<blogVars, pageVars, lookupFrame, calls, detours>>

\* a non-empty first page whose Link header names a last page
CommitsLastPage(i) ==
  /\ Pending(i, "commits")
  /\ \E last \in LastPages :
       commitPromises' =
         [commitPromises EXCEPT ![i].st = "lastPage", ![i].lastPage = last,
                                ![i].firstPage = "some"]
  /\ calls' = Issue(calls, "lastPage", 1)
  /\ UNCHANGED <<blogVars, pageVars, lookupFrame, detours>>

\* lastPageResponse.ok: the return inside the block that holds lastPage
LastPageOk(i) ==
  /\ Pending(i, "lastPage")
  /\ \E k \in LastCounts :
       commitPromises' =
         [commitPromises EXCEPT ![i] =
            [Returned(@, LastPageCount(@.lastPage, k), "lastPage")
               EXCEPT !.lastPageCommits = k]]
  /\ UNCHANGED <<blogVars, pageVars, lookupFrame, calls, detours>>

\* !lastPageResponse.ok: leaves the block that holds lastPage and falls
\* through to the estimate
LastPageNotOk(i) ==
  /\ Pending(i, "lastPage")
  /\ \E age \in AgeDays :
       commitPromises' =
         [commitPromises EXCEPT ![i] =
            [Returned(@, EstimateCommits(age), "estimate")
               EXCEPT !.lastPage = 0, !.repoAge = age]]
  /\ UNCHANGED <<blogVars, pageVars, lookupFrame, calls, detours>>

\* the last-page fetch rejects or json() rejects: catch (err) { return 0 }
LastPageThrow(i) ==
  /\ Pending(i, "lastPage")
  /\ \E failure \in {"reject", "badJson"} :
       commitPromises' =
         [commitPromises EXCEPT ![i] =
            [Returned(@, 0, "catch") EXCEPT !.lastPage = 0]]
  /\ UNCHANGED <<blogVars, pageVars, lookupFrame, calls, detours>>

AllSettled ==
  /\ pc = "awaitLookups"
  /\ \A i \in DOMAIN commitPromises : commitPromises[i].st = "done"

\* Faulty variant of Finish: setLoading(false) is missing on the normal
\* path.
FinishKeepsLoading ==
  /\ stats' = NormalStats(publicRepos, totalForks)
  /\ loading' = loading
  /\ path' = "normal"
  /\ pc' = "done"

\* recentRepos, setStats, setLoading(false) of the normal path
Finish ==
  /\ stats' = NormalStats(publicRepos, totalForks)
  /\ loading' = FALSE
  /\ path' = "normal"
  /\ pc' = "done"

\* Promise.allSettled resolves with a candidate of at least 10
SettledEnough ==
  /\ AllSettled
  /\ SumFulfilled(commitPromises) >= LowCommits
  /\ totalCommits' = SumFulfilled(commitPromises)
  /\ Finish
  /\ UNCHANGED <<blogVars, pageVars, responses, reposData, eventsData, calls,
                 publicRepos,
                 totalForks, activeRepos, commitPromises, contributions,
                 detours>>

\* Faulty variant of SettledLow: the lookups are not awaited.
SettledLowNoWait ==
  /\ pc = "awaitLookups"
  /\ SumFulfilled(commitPromises) < LowCommits
  /\ totalCommits' = SumFulfilled(commitPromises)
  /\ calls' = Issue(calls, "events", 1)
  /\ pc' = "awaitEvents"
  /\ UNCHANGED <<blogVars, pageVars, responses, reposData, eventsData, stats,
                 loading,
                 publicRepos, totalForks, activeRepos, commitPromises,
                 contributions, detours, path>>

\* Promise.allSettled resolves with a candidate below 10: the events call
SettledLow ==
  /\ AllSettled
  /\ SumFulfilled(commitPromises) < LowCommits
  /\ totalCommits' = SumFulfilled(commitPromises)
  /\ calls' = Issue(calls, "events", 1)
  /\ pc' = "awaitEvents"
  /\ UNCHANGED <<blogVars, pageVars, responses, reposData, eventsData,
                 stats, loading, publicRepos,
                 totalForks, activeRepos, commitPromises, contributions,
                 detours, path>>

RECURSIVE EventsCommits(_)
\* eventsData.filter(e => e.type === 'PushEvent')
\*           .reduce((sum, e) => sum + (e.payload?.commits?.length || 0), 0)
EventsCommits(events) ==
  IF events = <<>> THEN 0
  ELSE (IF Head(events).type = "PushEvent" THEN Head(events).commits ELSE 0)
       + EventsCommits(Tail(events))

\* Faulty variant of EventsOk: the events count replaces the candidate
\* without being compared with it.
EventsOkAlwaysReplaces ==
  /\ pc = "awaitEvents"
  /\ \E data \in EventLists :
       /\ eventsData' = data
       /\ totalCommits' = EventsCommits(data)
  /\ responses' = [responses EXCEPT !.events = "ok"]
  /\ Finish
  /\ UNCHANGED <<blogVars, pageVars, reposData, calls, publicRepos, totalForks,
                 activeRepos, commitPromises, contributions, detours>>

\* eventsResponse.ok
EventsOk ==
  /\ pc = "awaitEvents"
  /\ \E data \in EventLists :
       /\ eventsData' = data
       /\ totalCommits' = IF EventsCommits(data) > totalCommits
                          THEN EventsCommits(data)
                          ELSE totalCommits
  /\ responses' = [responses EXCEPT !.events = "ok"]
  /\ Finish
  /\ UNCHANGED <<blogVars, pageVars, reposData, calls, publicRepos, totalForks,
                 activeRepos, commitPromises, contributions, detours>>

\* Faulty variant of EventsFailed: the events step has no try/catch of its
\* own, so the failure reaches the top-level catch.
EventsFailedEscapes ==
  /\ pc = "awaitEvents"
  /\ \E failure \in {"403", "500", "reject", "badJson", "notAList"}  :
       /\ responses' = [responses EXCEPT !.events = failure]
       /\ Catch
  /\ UNCHANGED <<blogVars, pageVars, reposData, eventsData,
                 calls, publicRepos, totalForks,
                 activeRepos, commitPromises, totalCommits, contributions,
                 detours>>

\* !eventsResponse.ok, a rejected events fetch or a body that is no list of
\* events: the inner catch ignores it
EventsFailed ==
  /\ pc = "awaitEvents"
  /\ \E failure \in {"403", "500", "reject", "badJson", "notAList"}  :
       /\ responses' = [responses EXCEPT !.events = failure]
       /\ Finish
  /\ UNCHANGED <<blogVars, pageVars, reposData, eventsData,
                 calls, publicRepos, totalForks,
                 activeRepos, commitPromises, totalCommits, contributions,
                 detours>>

Lookup(i) ==
  \/ ContributorsFound(i)
  \/ ContributorsMissing(i)
  \/ ContributorsNotOk(i)
  \/ ContributorsThrow(i)
  \/ CommitsZero(i)
  \/ CommitsThrow(i)
  \/ CommitsEstimate(i)
  \/ CommitsLastPage(i)
  \/ LastPageOk(i)
  \/ LastPageNotOk(i)
  \/ LastPageThrow(i)

(***************************************************************************)
(* blogLoader.ts                                                           *)
(***************************************************************************)
\* Number of getBlogPost calls in one run.
MaxLoads == 2

\* const blogMetadata, with the fields the loader reads
Catalog ==
  << [id |-> "ai-integration-fullstack", category |-> "Full Stack",
      featured |-> TRUE],
     [id |-> "serverless-architecture-edge", category |-> "Backend",
      featured |-> TRUE],
     [id |-> "graphql-federation-microservices", category |-> "Backend",
      featured |-> TRUE],
     [id |-> "observability-opentelemetry", category |-> "Backend",
      featured |-> TRUE],
     [id |-> "building-scalable-iot-platforms", category |-> "IoT",
      featured |-> FALSE],
     [id |-> "backend-optimization", category |-> "Backend",
      featured |-> TRUE],
     [id |-> "real-time-data-streaming", category |-> "IoT",
      featured |-> FALSE],
     [id |-> "microservices-communication", category |-> "Backend",
      featured |-> FALSE],
     [id |-> "time-series-database-optimization", category |-> "Backend",
      featured |-> FALSE],
     [id |-> "full-stack-typescript", category |-> "Full Stack",
      featured |-> FALSE] >>

\* categoryIcons[category] || Code
CategoryIcon(category) ==
  CASE category = "IoT" -> "Cloud"
    [] category = "Backend" -> "Zap"
    [] category = "Full Stack" -> "Code"
    [] category = "Database" -> "Database"
    [] OTHER -> "Code"

\* categoryGradients[category] || 'from-teal to-cyan'
CategoryGradient(category) ==
  CASE category = "IoT" -> "from-teal to-cyan"
    [] category = "Backend" -> "from-cyan to-teal"
    [] category = "Full Stack" -> "from-cyan to-teal"
    [] category = "Database" -> "from-teal to-cyan"
    [] OTHER -> "from-teal to-cyan"

\* Texts are sequences of characters.
Whitespace == {"\n", " "}
Dashes == <<"-", "-", "-">>

IsWs(text, i) == i <= Len(text) /\ text[i] \in Whitespace

StartsWith(text, i, piece) ==
  /\ i + Len(piece) - 1 <= Len(text)
  /\ \A k \in 1..Len(piece) : text[i + k - 1] = piece[k]

RECURSIVE WsRunEnd(_, _)
\* the first position at or after i that holds no whitespace
WsRunEnd(text, i) == IF IsWs(text, i) THEN WsRunEnd(text, i + 1) ELSE i

\* the positions right after a newline of the whitespace run starting at
\* i: where "\s*\n" may end
AfterNewline(text, i) ==
  {j + 1 : j \in {k \in i..(WsRunEnd(text, i) - 1) : text[k] = "\n"}}

\* the positions q at or after p where "\n---\s*\n" matches
Closings(text, p) ==
  {q \in p..Len(text) :
     /\ text[q] = "\n"
     /\ StartsWith(text, q + 1, Dashes)
     /\ AfterNewline(text, q + 4) # {}}

SetMax(S) == CHOOSE x \in S : \A y \in S : y <= x
SetMin(S) == CHOOSE x \in S : \A y \in S : x <= y

\* the end of the match of /^---\s*\n([\s\S]*?)\n---\s*\n/ in text, 0 when
\* it does not match: the greedy \s* gives up newlines until the lazy group
\* finds a closing line, and the last \s* is greedy again
FrontmatterEnd(text) ==
  IF ~StartsWith(text, 1, Dashes) THEN 0
  ELSE LET starts == {p \in AfterNewline(text, 4) : Closings(text, p) # {}}
       IN  IF starts = {} THEN 0
           ELSE SetMax(AfterNewline(text,
                         SetMin(Closings(text, SetMax(starts))) + 4)) - 1

\* Faulty variant of StripFrontmatter: only the opening line is removed.
StripOpeningLine(text) ==
  IF FrontmatterEnd(text) = 0 THEN text
  ELSE SubSeq(text, SetMax(AfterNewline(text, 4)), Len(text))

\* text.replace(frontmatterRegex, '')
StripFrontmatter(text) ==
  SubSeq(text, FrontmatterEnd(text) + 1, Len(text))

RECURSIVE TrimStart(_)
TrimStart(text) ==
  IF text # <<>> /\ Head(text) \in Whitespace THEN TrimStart(Tail(text))
  ELSE text

RECURSIVE TrimEnd(_)
TrimEnd(text) ==
  IF text # <<>> /\ text[Len(text)] \in Whitespace
  THEN TrimEnd(SubSeq(text, 1, Len(text) - 1))
  ELSE text

\* String.prototype.trim
Trim(text) == TrimEnd(TrimStart(text))

\* what loadMarkdownContent returns for a response text
MarkdownContent(text) == Trim(StripFrontmatter(text))

\* Response texts: an opening line, header lines, a closing line and a
\* body, each of them possibly absent or broken.
Openings ==
  {<<>>, <<"-", "-", "-", "\n">>, <<"-", "-", "-", " ", "\n">>,
   <<"-", "-", "-", "a", "\n">>, <<"-", "-", "\n">>}
Headers == {<<>>, <<"a">>, <<"a", "\n", "-", "-", "-">>}
Closers ==
  {<<>>, <<"\n", "-", "-", "-", "\n">>, <<"\n", "-", "-", "-">>,
   <<"\n", "-", "-", "-", " ", "\n">>}
Bodies == {<<>>, <<"b">>, <<"\n", "b", " ", "b", "\n">>, <<" ", "\n">>}

Texts ==
  {o \o h \o c \o b : o \in Openings, h \in Headers, c \in Closers,
                      b \in Bodies}

\* loadMarkdownContent on every response text
ContentOf == [text \in Texts |-> MarkdownContent(text)]

\* the ids getBlogPost is called with
RequestIds ==
  {"ai-integration-fullstack", "full-stack-typescript", "does-not-exist"}

BlogInit ==
  /\ blogMetadata = Catalog
  /\ listing = Null
  /\ listedAt = 0
  /\ inFlight = [id \in RequestIds |-> 0]
  /\ fetches = 0
  /\ loads = 0
  /\ returned = Null

\* blogMetadata.map(post => ({...post, icon, gradient}))
WithPresentation(posts) ==
  [i \in DOMAIN posts |->
     [id |-> posts[i].id, category |-> posts[i].category,
      featured |-> posts[i].featured,
      icon |-> CategoryIcon(posts[i].category),
      gradient |-> CategoryGradient(posts[i].category)]]

RECURSIVE FeaturedFirst(_)
\* the order the faulty variant of GetBlogPosts leaves the catalog in
FeaturedFirst(posts) ==
  IF posts = <<>> THEN <<>>
  ELSE IF Head(posts).featured
       THEN <<Head(posts)>> \o FeaturedFirst(Tail(posts))
       ELSE FeaturedFirst(Tail(posts)) \o <<Head(posts)>>

\* Faulty variant of GetBlogPosts: the catalog is sorted in place, featured
\* posts first, before it is mapped.
GetBlogPostsSortsCatalog ==
  /\ blogMetadata' = FeaturedFirst(blogMetadata)
  /\ listing' = WithPresentation(FeaturedFirst(blogMetadata))
  /\ listedAt' = loads
  /\ UNCHANGED <<ghVars, pageVars, inFlight, fetches, loads, returned>>

\* getBlogPosts()
GetBlogPosts ==
  /\ listing' = WithPresentation(blogMetadata)
  /\ listedAt' = loads
  /\ UNCHANGED <<ghVars, pageVars, blogMetadata, inFlight, fetches, loads,
                 returned>>

\* blogMetadata.find(post => post.id === id)
FindMetadata(id) ==
  IF \E i \in DOMAIN blogMetadata : blogMetadata[i].id = id
  THEN blogMetadata[
         SetMin({i \in DOMAIN blogMetadata : blogMetadata[i].id = id})]
  ELSE Null

\* Faulty variant of GetBlogPostUnknown: the content is fetched before the
\* metadata is looked up.
GetBlogPostUnknownFetches(id) ==
  /\ loads < MaxLoads
  /\ FindMetadata(id) = Null
  /\ loads' = loads + 1
  /\ fetches' = fetches + 1
  /\ returned' = [id |-> id, fetched |-> [status |-> "404"], post |-> Null]
  /\ UNCHANGED <<ghVars, pageVars, blogMetadata, listing, listedAt, inFlight>>

\* getBlogPost(id) with an id the catalog lacks: return null
GetBlogPostUnknown(id) ==
  /\ loads < MaxLoads
  /\ FindMetadata(id) = Null
  /\ loads' = loads + 1
  /\ returned' = [id |-> id, fetched |-> [status |-> "none"], post |-> Null]
  /\ UNCHANGED <<ghVars, pageVars, blogMetadata, listing, listedAt, inFlight,
                 fetches>>

\* getBlogPost(id) up to the await in loadMarkdownContent: the fetch
GetBlogPostFetch(id) ==
  /\ loads < MaxLoads
  /\ FindMetadata(id) # Null
  /\ loads' = loads + 1
  /\ inFlight' = [inFlight EXCEPT ![id] = @ + 1]
  /\ fetches' = fetches + 1
  /\ UNCHANGED <<ghVars, pageVars, blogMetadata, listing, listedAt, returned>>

\* the rest of getBlogPost once loadMarkdownContent returned content for
\* what the fetch delivered
ReturnPost(id, fetched, content) ==
  /\ inFlight' = [inFlight EXCEPT ![id] = @ - 1]
  /\ returned' =
       [id |-> id,
        fetched |-> fetched,
        post |-> IF content = <<>> THEN Null
                 ELSE [id |-> FindMetadata(id).id,
                       category |-> FindMetadata(id).category,
                       featured |-> FindMetadata(id).featured,
                       content |-> content,
                       icon |-> CategoryIcon(FindMetadata(id).category),
                       gradient |->
                         CategoryGradient(FindMetadata(id).category)]]
  /\ UNCHANGED <<ghVars, pageVars, blogMetadata, listing, listedAt, fetches,
                 loads>>

\* response.ok and response.text() is text
FetchOk(id) ==
  /\ inFlight[id] > 0
  /\ \E text \in Texts :
       ReturnPost(id, [status |-> "ok", text |-> text], ContentOf[text])

\* Faulty variant of FetchFailed: loadMarkdownContent has no catch, so
\* getBlogPost rejects.
FetchFailedRejects(id) ==
  /\ inFlight[id] > 0
  /\ \E failure \in {"404", "500", "reject", "textReject"} :
       /\ inFlight' = [inFlight EXCEPT ![id] = @ - 1]
       /\ returned' = [id |-> id, fetched |-> [status |-> failure],
                       post |-> [rejected |-> TRUE]]
  /\ UNCHANGED <<ghVars, pageVars, blogMetadata, listing, listedAt, fetches,
                 loads>>

\* !response.ok (a missing resource is a 404), a rejected fetch or a
\* rejected text(): the catch of loadMarkdownContent returns ''
FetchFailed(id) ==
  /\ inFlight[id] > 0
  /\ \E failure \in {"404", "500", "reject", "textReject"} :
       ReturnPost(id, [status |-> failure], <<>>)

(***************************************************************************)
(* One fetchGitHubData run, its lookups counted                            *)
(***************************************************************************)
CountInit ==
  /\ stage = "idle"
  /\ issued = NoCalls
  /\ atStage = [contributors |-> 0, commits |-> 0, lastPage |-> 0]

countFrame == <<ghVars, blogVars, sectionVars, contactVars, raceVars>>

\* useEffect: fetchGitHubData() up to its first await
CountMount ==
  /\ stage = "idle"
  /\ issued' = Issue(issued, "user", 1)
  /\ stage' = "awaitUser"
  /\ UNCHANGED <<countFrame, atStage>>

\* userResponse.ok: the repository list is requested
CountUserOk ==
  /\ stage = "awaitUser"
  /\ issued' = Issue(issued, "repos", 1)
  /\ stage' = "awaitRepos"
  /\ UNCHANGED <<countFrame, atStage>>

\* the profile call answers 403 or fails: the run ends
CountUserStops ==
  /\ stage = "awaitUser"
  /\ stage' = "done"
  /\ UNCHANGED <<countFrame, issued, atStage>>

\* Faulty variant of CountReposOk: the slice(0, 15) is missing, every owned
\* repository gets a lookup.
CountReposOkNoSlice ==
  /\ stage = "awaitRepos"
  /\ \E owned \in 0..MaxOwned :
       /\ atStage' = [atStage EXCEPT !.contributors = owned]
       /\ issued' = Issue(issued, "contributors", owned)
  /\ stage' = "awaitLookups"
  /\ UNCHANGED countFrame

\* reposResponse.ok with a list of which owned entries are no forks:
\* sort, slice(0, 15) and map, every lookup issues its contributor call
CountReposOk ==
  /\ stage = "awaitRepos"
  /\ \E owned \in 0..MaxOwned :
       /\ atStage' =
            [atStage EXCEPT
               !.contributors = Len(Slice([i \in 1..owned |-> i], ActiveLimit))]
       /\ issued' =
            Issue(issued, "contributors",
                  Len(Slice([i \in 1..owned |-> i], ActiveLimit)))
  /\ stage' = "awaitLookups"
  /\ UNCHANGED countFrame

\* the repository-list call answers 403 or fails: the run ends
CountReposStops ==
  /\ stage = "awaitRepos"
  /\ stage' = "done"
  /\ UNCHANGED <<countFrame, issued, atStage>>

\* a lookup returns after its contributor call: the account's
\* contributions, or 0 from its catch
CountContributorsReturn ==
  /\ stage = "awaitLookups"
  /\ atStage.contributors > 0
  /\ atStage' = [atStage EXCEPT !.contributors = @ - 1]
  /\ UNCHANGED <<countFrame, stage, issued>>

\* Method 1 gave no count: the first commits page is requested
CountToCommits ==
  /\ stage = "awaitLookups"
  /\ atStage.contributors > 0
  /\ atStage' = [atStage EXCEPT !.contributors = @ - 1, !.commits = @ + 1]
  /\ issued' = Issue(issued, "commits", 1)
  /\ UNCHANGED <<countFrame, stage>>

\* a lookup returns after its first commits page: 0 or the estimate
CountCommitsReturn ==
  /\ stage = "awaitLookups"
  /\ atStage.commits > 0
  /\ atStage' = [atStage EXCEPT !.commits = @ - 1]
  /\ UNCHANGED <<countFrame, stage, issued>>

\* the Link header names a last page: it is requested
CountToLastPage ==
  /\ stage = "awaitLookups"
  /\ atStage.commits > 0
  /\ atStage' = [atStage EXCEPT !.commits = @ - 1, !.lastPage = @ + 1]
  /\ issued' = Issue(issued, "lastPage", 1)
  /\ UNCHANGED <<countFrame, stage>>

\* a lookup returns after its last-page call
CountLastPageReturn ==
  /\ stage = "awaitLookups"
  /\ atStage.lastPage > 0
  /\ atStage' = [atStage EXCEPT !.lastPage = @ - 1]
  /\ UNCHANGED <<countFrame, stage, issued>>

CountAllSettled ==
  /\ stage = "awaitLookups"
  /\ atStage = [contributors |-> 0, commits |-> 0, lastPage |-> 0]

\* Promise.allSettled resolves with a candidate of at least 10
CountSettledEnough ==
  /\ CountAllSettled
  /\ stage' = "done"
  /\ UNCHANGED <<countFrame, issued, atStage>>

\* Promise.allSettled resolves with a candidate below 10: the events call
CountSettledLow ==
  /\ CountAllSettled
  /\ issued' = Issue(issued, "events", 1)
  /\ stage' = "awaitEvents"
  /\ UNCHANGED <<countFrame, atStage>>

\* the events call completes
CountEventsReturn ==
  /\ stage = "awaitEvents"
  /\ stage' = "done"
  /\ UNCHANGED <<countFrame, issued, atStage>>

CountNext ==
  \/ CountMount
  \/ CountUserOk
  \/ CountUserStops
  \/ CountReposOk
  \/ CountReposStops
  \/ CountContributorsReturn
  \/ CountToCommits
  \/ CountCommitsReturn
  \/ CountToLastPage
  \/ CountLastPageReturn
  \/ CountSettledEnough
  \/ CountSettledLow
  \/ CountEventsReturn

(***************************************************************************)
(* GitHubActivity under a changing username                                *)
(***************************************************************************)
\* the usernames the component is rendered with
Usernames == <<"Alitariq-code", "octocat">>

RaceInit ==
  /\ username = Usernames[1]
  /\ runs = <<>>

\* what the repository-list call answers for the account: the k-th
\* username owns k repositories
ReposOfUser(u) ==
  LET k == CHOOSE j \in DOMAIN Usernames : Usernames[j] = u
  IN  [i \in 1..k |->
         [name |-> i, fork |-> FALSE, forks_count |-> 0,
          stargazers_count |-> 10 * i, updated_at |-> k - i + 1]]

raceFrame ==
  <<blogVars, sectionVars, contactVars, countVars, pc, calls, responses,
    reposData, eventsData, publicRepos, totalForks, activeRepos,
    commitPromises, totalCommits, contributions, detours, path>>

\* the effect calls fetchGitHubData with the username of the render:
\* setLoading(true) and the profile fetch; the effect returns no cleanup,
\* so the runs made before go on
StartRun(u) ==
  /\ runs' = Append(runs, [user |-> u, st |-> "awaitUser", result |-> Null])
  /\ loading' = TRUE

\* the effect after the mount
RunEffect ==
  /\ runs = <<>>
  /\ StartRun(username)
  /\ UNCHANGED <<raceFrame, username, stats>>

\* the component is rendered with another username: the effect runs again
ChangeUsername(u) ==
  /\ runs # <<>>
  /\ Len(runs) < MaxRuns
  /\ u # username
  /\ username' = u
  /\ StartRun(u)
  /\ UNCHANGED <<raceFrame, stats>>

Awaiting(r, st) == r \in DOMAIN runs /\ runs[r].st = st

\* userResponse.ok of run r: its repository list is requested
RunUserOk(r) ==
  /\ Awaiting(r, "awaitUser")
  /\ runs' = [runs EXCEPT ![r].st = "awaitRepos"]
  /\ UNCHANGED <<raceFrame, username, stats, loading>>

\* run r ends with snapshot: setStats(snapshot); setLoading(false)
EndRun(r, snapshot) ==
  /\ runs' = [runs EXCEPT ![r].st = "done", ![r].result = snapshot]
  /\ stats' = snapshot
  /\ loading' = FALSE

\* the profile or repository-list call of run r answers 403 or fails
RunFallback(r) ==
  /\ Awaiting(r, "awaitUser") \/ Awaiting(r, "awaitRepos")
  /\ EndRun(r, FallbackCatch)
  /\ UNCHANGED <<raceFrame, username>>

\* reposResponse.ok of run r: the lookups of its active set begin
RunReposOk(r) ==
  /\ Awaiting(r, "awaitRepos")
  /\ runs' = [runs EXCEPT ![r].st = "awaitLookups"]
  /\ UNCHANGED <<raceFrame, username, stats, loading>>

\* the normal path of run r, from the repository list of its username
RunFinish(r) ==
  EndRun(r, NormalStats(SortByUpdated(NonForks(ReposOfUser(runs[r].user))),
                        SumForks(NonForks(ReposOfUser(runs[r].user)))))

\* the lookups of run r have settled with a candidate of at least 10
RunSettledEnough(r) ==
  /\ Awaiting(r, "awaitLookups")
  /\ RunFinish(r)
  /\ UNCHANGED <<raceFrame, username>>

\* the lookups of run r have settled with a candidate below 10
RunSettledLow(r) ==
  /\ Awaiting(r, "awaitLookups")
  /\ runs' = [runs EXCEPT ![r].st = "awaitEvents"]
  /\ UNCHANGED <<raceFrame, username, stats, loading>>

\* the events call of run r completes
RunEventsReturn(r) ==
  /\ Awaiting(r, "awaitEvents")
  /\ RunFinish(r)
  /\ UNCHANGED <<raceFrame, username>>

RaceNext ==
  \/ RunEffect
  \/ \E u \in {Usernames[k] : k \in DOMAIN Usernames} : ChangeUsername(u)
  \/ \E r \in 1..MaxRuns : RunUserOk(r)
  \/ \E r \in 1..MaxRuns : RunFallback(r)
  \/ \E r \in 1..MaxRuns : RunReposOk(r)
  \/ \E r \in 1..MaxRuns : RunSettledEnough(r)
  \/ \E r \in 1..MaxRuns : RunSettledLow(r)
  \/ \E r \in 1..MaxRuns : RunEventsReturn(r)

(***************************************************************************)
(* The Blog section (sections/Testimonials.tsx)                            *)
(***************************************************************************)
\* null of useState<string | null>
NullId == "null"

\* the posts whose cards are clicked
CardIds ==
  {"ai-integration-fullstack", "backend-optimization", "full-stack-typescript"}

SectionInit ==
  /\ selectedPostId = NullId
  /\ selectedPost = Null
  /\ loadingPost = FALSE
  /\ postLoads = [id \in CardIds |-> 0]

sectionFrame == <<ghVars, blogVars, contactVars, raceVars, countVars>>

\* (selectedPostId || selectedPost): the modal and its backdrop are shown
ModalOpen == selectedPostId # NullId \/ selectedPost # Null

RECURSIVE PendingOver(_)
\* the number of getBlogPost calls that have not settled
PendingOver(S) ==
  IF S = {} THEN 0
  ELSE LET id == CHOOSE x \in S : TRUE
       IN  postLoads[id] + PendingOver(S \ {id})

\* onClick of a card, which the backdrop of an open modal covers:
\* setSelectedPostId(post.id); the effect then runs its first branch,
\* setLoadingPost(true) and getBlogPost(selectedPostId)
SelectPost(id) ==
  /\ ~ModalOpen
  /\ PendingOver(CardIds) < MaxPending
  /\ selectedPostId' = id
  /\ loadingPost' = TRUE
  /\ postLoads' = [postLoads EXCEPT ![id] = @ + 1]
  /\ UNCHANGED <<sectionFrame, selectedPost>>

\* onClick of the backdrop or of the close button: setSelectedPostId(null);
\* setSelectedPost(null); the effect, if selectedPostId changed, runs its
\* else branch
CloseModal ==
  /\ ModalOpen
  /\ selectedPostId' = NullId
  /\ selectedPost' = Null
  /\ UNCHANGED <<sectionFrame, loadingPost, postLoads>>

\* a getBlogPost(id) call resolves, with the post or with null:
\* .then(post => { setSelectedPost(post); setLoadingPost(false) })
LoadResolved(id) ==
  /\ postLoads[id] > 0
  /\ postLoads' = [postLoads EXCEPT ![id] = @ - 1]
  /\ \E post \in {[id |-> id], Null} : selectedPost' = post
  /\ loadingPost' = FALSE
  /\ UNCHANGED <<sectionFrame, selectedPostId>>

\* the Blog section; getBlogPost does not reject, so the .catch of the
\* effect is never entered
SectionNext ==
  \/ \E id \in CardIds : SelectPost(id)
  \/ CloseModal
  \/ \E id \in CardIds : LoadResolved(id)

(***************************************************************************)
(* The contact form (sections/Contact.tsx)                                 *)
(***************************************************************************)
Fields == {"name", "email", "subject", "message"}

\* no entry, or an entry that holds undefined
NoError == "undefined"

\* the least lengths validateField asks for
MinName == 2
MinSubject == 3
MinMessage == 10

\* emailRegex.test(value), /^[^\s@]+@[^\s@]+\.[^\s@]+$/: one "@", no
\* whitespace, and a "." between two characters after the "@"
EmailMatches(value) ==
  \E i, j \in DOMAIN value :
    /\ value[i] = "@"
    /\ value[j] = "."
    /\ 1 < i
    /\ i + 1 < j
    /\ j < Len(value)
    /\ \A k \in DOMAIN value :
         k # i => (value[k] \notin Whitespace /\ value[k] # "@")

\* validateField(name, value)
ValidateField(name, value) ==
  CASE name = "name" ->
         IF Trim(value) = <<>> THEN "Please enter your name"
         ELSE IF Len(Trim(value)) < MinName
              THEN "Name must be at least 2 characters"
              ELSE NoError
    [] name = "email" ->
         IF Trim(value) = <<>> THEN "Please enter your email"
         ELSE IF ~EmailMatches(value) THEN "Please enter a valid email"
              ELSE NoError
    [] name = "subject" ->
         IF Trim(value) = <<>> THEN "Please enter a subject"
         ELSE IF Len(Trim(value)) < MinSubject
              THEN "Subject must be at least 3 characters"
              ELSE NoError
    [] name = "message" ->
         IF Trim(value) = <<>> THEN "Please enter a message"
         ELSE IF Len(Trim(value)) < MinMessage
              THEN "Message must be at least 10 characters"
              ELSE NoError
    [] OTHER -> NoError

\* what is typed into the fields
Typed ==
  [name |-> {<<>>, <<" ">>, <<" ", "a", " ">>, <<"a", "b">>},
   email |-> {<<>>, <<"a", "@", "b">>, <<"a", "@", "b", ".", "c">>,
              <<"a", "@", "b", ".", "c", " ">>},
   subject |-> {<<>>, <<"a", "b">>, <<"a", "b", "c">>},
   message |-> {<<>>, [i \in 1..(MinMessage - 1) |-> "m"],
                [i \in 1..MinMessage |-> IF i < 3 THEN " " ELSE "m"],
                [i \in 1..MinMessage |-> "m"]}]

EmptyForm == [f \in Fields |-> <<>>]

\* window.location.href before any submission
ThisPage == [page |-> "portfolio"]

\* mailtoLink: the address and the fields the subject and the body are
\* built from
MailtoLink(data) == [mailto |-> "alitariqcode@gmail.com", data |-> data]

ContactInit ==
  /\ formData = EmptyForm
  /\ errors = [f \in Fields |-> NoError]
  /\ touched = [f \in Fields |-> FALSE]
  /\ submitState = "idle"
  /\ submissions = <<>>
  /\ resetTimers = <<>>
  /\ location = ThisPage

contactFrame == <<ghVars, blogVars, sectionVars, raceVars, countVars>>

\* handleChange: the field takes the value, and its error is renewed if
\* the field has been touched
HandleChange(name, value) ==
  /\ value # formData[name]
  /\ formData' = [formData EXCEPT ![name] = value]
  /\ errors' = IF touched[name]
               THEN [errors EXCEPT ![name] = ValidateField(name, value)]
               ELSE errors
  /\ UNCHANGED <<contactFrame, touched, submitState, submissions,
                 resetTimers, location>>

\* handleBlur: the field is touched and its error renewed
HandleBlur(name) ==
  /\ touched' = [touched EXCEPT ![name] = TRUE]
  /\ errors' = [errors EXCEPT ![name] = ValidateField(name, formData[name])]
  /\ UNCHANGED <<contactFrame, formData, submitState, submissions,
                 resetTimers, location>>

\* the newErrors of validateForm
NewErrors(data) == [f \in Fields |-> ValidateField(f, data[f])]

\* the isValid of validateForm
IsValid(data) == \A f \in Fields : ValidateField(f, data[f]) = NoError

\* the submit button is disabled while loading
CanSubmit ==
  /\ submitState # "loading"
  /\ Len(submissions) + Len(resetTimers) < MaxSubmits

\* Faulty variant of HandleSubmit: the return after a failed validateForm
\* is missing.
HandleSubmitNoReturn ==
  /\ CanSubmit
  /\ errors' = NewErrors(formData)
  /\ touched' = [f \in Fields |-> TRUE]
  /\ submitState' = "loading"
  /\ submissions' = Append(submissions, MailtoLink(formData))
  /\ UNCHANGED <<contactFrame, formData, resetTimers, location>>

\* handleSubmit up to its await: validateForm sets errors and touched; a
\* valid form sets 'loading', builds the link and starts the delay
HandleSubmit ==
  /\ CanSubmit
  /\ errors' = NewErrors(formData)
  /\ touched' = [f \in Fields |-> TRUE]
  /\ IF IsValid(formData)
     THEN /\ submitState' = "loading"
          /\ submissions' = Append(submissions, MailtoLink(formData))
     ELSE UNCHANGED <<submitState, submissions>>
  /\ UNCHANGED <<contactFrame, formData, resetTimers, location>>

\* the 1500 ms delay of the oldest submission under way is over: the link
\* is opened, 'success' is set and the reset timer started
DelayElapsed ==
  /\ submissions # <<>>
  /\ location' = Head(submissions)
  /\ submitState' = "success"
  /\ submissions' = Tail(submissions)
  /\ resetTimers' = Append(resetTimers, "success")
  /\ UNCHANGED <<contactFrame, formData, errors, touched>>

\* the oldest 3000 ms timer fires: the form is emptied and 'idle' is set
ResetFires ==
  /\ resetTimers # <<>>
  /\ resetTimers' = Tail(resetTimers)
  /\ formData' = EmptyForm
  /\ errors' = [f \in Fields |-> NoError]
  /\ touched' = [f \in Fields |-> FALSE]
  /\ submitState' = "idle"
  /\ UNCHANGED <<contactFrame, submissions, location>>

ContactNext ==
  \/ \E name \in Fields : \E value \in Typed[name] : HandleChange(name, value)
  \/ \E name \in Fields : HandleBlur(name)
  \/ HandleSubmit
  \/ DelayElapsed
  \/ ResetFires

vars == <<ghVars, blogVars, pageVars>>

Init ==
  /\ GhInit
  /\ BlogInit
  /\ CountInit
  /\ RaceInit
  /\ SectionInit
  /\ ContactInit

\* one fetchGitHubData run
Next ==
  \/ Mount
  \/ UserOk
  \/ UserRateLimited
  \/ UserFailed
  \/ ReposOk
  \/ ReposRateLimited
  \/ ReposFailed
  \/ \E i \in 1..ActiveLimit : Lookup(i)
  \/ SettledEnough
  \/ SettledLow
  \/ EventsOk
  \/ EventsFailed

Spec == Init /\ [][Next]_vars

\* the run when the effect runs after the mount and every call issued
\* completes, so that each await resumes
FairSpec == Init /\ [][Next]_vars /\ WF_vars(Next)

\* the calls of the blog loader
BlogNext ==
  \/ GetBlogPosts
  \/ \E id \in RequestIds : GetBlogPostUnknown(id)
  \/ \E id \in RequestIds : GetBlogPostFetch(id)
  \/ \E id \in RequestIds : FetchOk(id)
  \/ \E id \in RequestIds : FetchFailed(id)

BlogSpec == Init /\ [][BlogNext]_vars

\* the events and timers of the contact form
ContactSpec == Init /\ [][ContactNext]_vars

\* the clicks and load completions of the Blog section
SectionSpec == Init /\ [][SectionNext]_vars

\* the runs of a component whose username changes
RaceSpec == Init /\ [][RaceNext]_vars

\* one fetchGitHubData run with counted lookups
CountSpec == Init /\ [][CountNext]_vars

(***************************************************************************)
(* Properties of fetchGitHubData                                           *)
(***************************************************************************)
\* indices of the non-forked entries of the repository-list response
OwnedIdx == {i \in DOMAIN reposData : ~reposData[i].fork}

RECURSIVE ForksOver(_)
ForksOver(S) ==
  IF S = {} THEN 0
  ELSE LET i == CHOOSE x \in S : TRUE
       IN  reposData[i].forks_count + ForksOver(S \ {i})

RECURSIVE StarsOver(_)
StarsOver(S) ==
  IF S = {} THEN 0
  ELSE LET i == CHOOSE x \in S : TRUE
       IN  reposData[i].stargazers_count + StarsOver(S \ {i})

\* what the lookup of active repository i owes to the candidate
OwnResult(i) ==
  IF commitPromises[i].via = "contributions"
  THEN contributions[activeRepos[i].name]
  ELSE commitPromises[i].value

RECURSIVE ResultsOver(_)
ResultsOver(S) ==
  IF S = {} THEN 0
  ELSE LET i == CHOOSE x \in S : TRUE
       IN  OwnResult(i) + ResultsOver(S \ {i})

\* the states in which totalCommits holds the candidate of step 4
HoldsCandidate ==
  \/ pc = "awaitEvents"
  \/ pc = "done" /\ path = "normal" /\ calls.events = 0

TheFallback ==
  [totalCommits |-> 500, totalRepos |-> 20, totalStars |-> 50,
   totalForks |-> 10, recentRepos |-> <<>>]

NoCallsAfter(endpoints) == \A e \in endpoints : calls[e] = 0

\* C1: a run that has finished, or has set loading to false, has set
\* loading to false and stats to a snapshot with all five fields, whatever
\* the calls returned; no run ends without one.
C1_AlwaysASnapshot ==
  (pc = "done" \/ loading = FALSE) =>
    /\ pc = "done"
    /\ loading = FALSE
    /\ stats # Null
    /\ DOMAIN stats =
         {"totalCommits", "totalRepos", "totalStars", "totalForks",
          "recentRepos"}
    /\ stats.totalCommits \in Nat
    /\ stats.totalRepos \in Nat
    /\ stats.totalStars \in Nat
    /\ stats.totalForks \in Nat
    /\ stats.recentRepos \in Seq([name : Nat, stars : Nat, updated : Nat])

C1_Witness ==
  /\ pc = "done"
  /\ responses.repos = "badJson"
  /\ stats # Null

\* C2: after a 403 of the profile call the run has ended with the fixed
\* fallback snapshot and has issued no call but the profile call.
C2_ProfileRateLimited ==
  responses.user = "403" =>
    /\ pc = "done"
    /\ loading = FALSE
    /\ stats = TheFallback
    /\ calls.user = 1
    /\ NoCallsAfter({"repos", "contributors", "commits", "lastPage", "events"})

C2_Witness == responses.user = "403" /\ stats = TheFallback

\* C3: after a 403 of the repository-list call the run has ended with the
\* snapshot of the rate-limited profile check and has issued no
\* contributor, commits or events call.
C3_ReposRateLimited ==
  responses.repos = "403" =>
    /\ pc = "done"
    /\ loading = FALSE
    /\ stats = FallbackUser
    /\ NoCallsAfter({"contributors", "commits", "lastPage", "events"})

C3_Witness ==
  /\ responses.user = "ok"
  /\ responses.repos = "403"
  /\ stats = FallbackUser

\* C4: every failure of the profile or repository-list step that is no 403
\* ends the run with the rate-limit fallback snapshot, and every run that
\* does not end on the normal path ends with that one snapshot.
C4_OneFallback ==
  /\ (\/ responses.user \in {"404", "500", "reject"}
      \/ responses.repos \in {"404", "500", "reject", "badJson", "notAList"})
       => (pc = "done" /\ path = "caught" /\ stats = FallbackUser)
  /\ (pc = "done" /\ path # "normal")
       => (stats = FallbackUser /\ stats = FallbackRepos)

C4_Witness ==
  /\ pc = "done"
  /\ responses.repos = "notAList"
  /\ stats = FallbackUser

\* C5: on the normal path totalForks is the sum of forks_count over the
\* non-forked entries of the response, totalRepos is their number, and
\* neither the active set nor recentRepos holds a forked entry.
C5_ForkExclusion ==
  /\ (pc = "done" /\ path = "normal") =>
       /\ stats.totalForks = ForksOver(OwnedIdx)
       /\ stats.totalRepos = Cardinality(OwnedIdx)
       /\ \A k \in DOMAIN stats.recentRepos :
            \E j \in OwnedIdx : reposData[j].name = stats.recentRepos[k].name
  /\ responses.repos = "ok" =>
       /\ \A k \in DOMAIN activeRepos :
            \E j \in OwnedIdx : reposData[j] = activeRepos[k]
       /\ calls.contributors <= Cardinality(OwnedIdx)

C5_Witness ==
  /\ pc = "done"
  /\ path = "normal"
  /\ \E i, j \in DOMAIN reposData :
       /\ reposData[i].fork /\ reposData[i].forks_count > 0
       /\ ~reposData[j].fork /\ reposData[j].forks_count > 0
  /\ stats.totalForks = 2
  /\ stats.totalRepos = 1

\* C6: whichever lookups throw, a run whose repository list arrived ends
\* on the normal path with totalRepos, totalForks and recentRepos of that
\* list; a lookup that threw counts 0 and the candidate is the sum of the
\* other lookups' own results.
C6_LookupIsolation ==
  /\ \A i \in DOMAIN commitPromises :
       commitPromises[i].via = "catch" => commitPromises[i].value = 0
  /\ (responses.repos = "ok" /\ pc = "done") =>
       /\ path = "normal"
       /\ stats.totalRepos = Cardinality(OwnedIdx)
       /\ stats.totalForks = ForksOver(OwnedIdx)
       /\ Len(stats.recentRepos) =
            (IF Cardinality(OwnedIdx) < 6 THEN Cardinality(OwnedIdx) ELSE 6)
  /\ (responses.repos = "ok" /\ HoldsCandidate) =>
       totalCommits =
         ResultsOver({i \in DOMAIN commitPromises :
                        commitPromises[i].via # "catch"})

C6_Witness ==
  /\ pc = "done"
  /\ path = "normal"
  /\ calls.events = 0
  /\ \E i, j \in DOMAIN commitPromises :
       /\ commitPromises[i].via = "catch"
       /\ commitPromises[j].via = "contributions"
  /\ totalCommits = 42
  /\ stats.totalRepos = 2

\* C7: every snapshot has at most 6 recentRepos and a totalForks of at
\* least 0, also when more than 6 repositories are owned.
C7_RecentCap ==
  stats # Null =>
    /\ Len(stats.recentRepos) <= 6
    /\ stats.totalForks >= 0

C7_Witness ==
  /\ pc = "done"
  /\ path = "normal"
  /\ Cardinality(OwnedIdx) > 6
  /\ Len(stats.recentRepos) = 6

\* C8: every snapshot shows 500 commits and 50 stars, whatever the
\* candidate and the stargazer counts are.
C8_FixedDisplay ==
  stats # Null =>
    /\ stats.totalCommits = 500
    /\ stats.totalStars = 50

C8_Witness ==
  /\ pc = "done"
  /\ path = "normal"
  /\ totalCommits = 126
  /\ StarsOver(OwnedIdx) = 60
  /\ stats.totalCommits = 500
  /\ stats.totalStars = 50

\* the account of C9: at most 6 owned repositories, none of them forked by
\* anyone, and every contributor call answered with the account's count c
EndToEndCase(n, c) ==
  /\ responses.repos = "ok"
  /\ Cardinality(OwnedIdx) = n
  /\ n <= 6
  /\ \A j \in OwnedIdx :
       reposData[j].forks_count = 0 /\ contributions[reposData[j].name] = c
  /\ \A i \in DOMAIN commitPromises : commitPromises[i].via = "contributions"

\* C9: for such an account the candidate is n * c, the commits endpoint is
\* never called, and the snapshot has totalRepos = n, totalForks = 0, all
\* n repositories in recentRepos and the fixed totalCommits.
C9_EndToEnd ==
  \A n \in 0..6 : \A c \in ContribVals :
    EndToEndCase(n, c) =>
      /\ calls.commits = 0
      /\ calls.lastPage = 0
      /\ HoldsCandidate => totalCommits = n * c
      /\ pc = "done" =>
           /\ stats.totalRepos = n
           /\ stats.totalForks = 0
           /\ {stats.recentRepos[k].name : k \in DOMAIN stats.recentRepos}
                = {reposData[j].name : j \in OwnedIdx}
           /\ Len(stats.recentRepos) = n
           /\ stats.totalCommits = 500

C9_Witness ==
  /\ EndToEndCase(3, 42)
  /\ pc = "done"
  /\ totalCommits = 126
  /\ stats.totalRepos = 3
  /\ Len(stats.recentRepos) = 3

\* C15: the steps of one run follow one another: the repository list is
\* requested only after the profile call succeeded, lookups call only after
\* the list arrived, the events call is issued only after every lookup has
\* settled, and the normal snapshot is set only after the lookups and the
\* events call (if one was issued) have finished.
C15_StepsInOrder ==
  /\ calls.repos > 0 => responses.user = "ok"
  /\ (calls.contributors + calls.commits + calls.lastPage > 0) =>
       responses.repos = "ok"
  /\ calls.events > 0 =>
       \A i \in DOMAIN commitPromises : commitPromises[i].st = "done"
  /\ pc \in {"idle", "awaitUser", "awaitRepos", "awaitLookups", "awaitEvents"}
       => stats = Null
  /\ (stats # Null /\ path = "normal") =>
       /\ \A i \in DOMAIN commitPromises : commitPromises[i].st = "done"
       /\ calls.events > 0 => responses.events # "none"

C15_Witness ==
  /\ pc = "done"
  /\ path = "normal"
  /\ calls.commits = 1
  /\ calls.lastPage = 1
  /\ calls.events = 1
  /\ responses.events = "ok"

\* the lookups that have asked the commits endpoint
AskedCommits ==
  {i \in DOMAIN commitPromises :
     \/ commitPromises[i].st \in {"commits", "lastPage"}
     \/ commitPromises[i].firstPage # "none"}

\* C16: a lookup whose contributor call listed the account has returned
\* that entry's contributions and has not asked the commits endpoint; the
\* commits endpoint is asked only by lookups whose contributor call gave no
\* count, once each; a lookup whose commits call did not succeed or held no
\* commits has returned 0.
C16_FirstSuccessWins ==
  /\ \A i \in DOMAIN commitPromises :
       /\ commitPromises[i].listed = "yes" =>
            /\ commitPromises[i].st = "done"
            /\ commitPromises[i].value = contributions[activeRepos[i].name]
            /\ i \notin AskedCommits
       /\ i \in AskedCommits => commitPromises[i].listed = "no"
       /\ commitPromises[i].firstPage = "noCommits" =>
            /\ commitPromises[i].st = "done"
            /\ commitPromises[i].value = 0
  /\ calls.commits >= Cardinality(AskedCommits)
  /\ calls.commits <=
       Cardinality({i \in DOMAIN commitPromises :
                      commitPromises[i].listed = "no"})

C16_Witness ==
  /\ pc = "done"
  /\ calls.commits = 1
  /\ \E i, j \in DOMAIN commitPromises :
       /\ commitPromises[i].listed = "yes"
       /\ commitPromises[i].value = 42
       /\ commitPromises[j].firstPage = "noCommits"
       /\ commitPromises[j].value = 0

\* C17: a lookup that returned from the last-page branch (first page not
\* empty, last page L named, page L fetched with k commits) returned
\* (L - 1) * 100 + k.
C17_LastPageFormula ==
  \A i \in DOMAIN commitPromises :
    commitPromises[i].via = "lastPage" =>
      /\ commitPromises[i].firstPage = "some"
      /\ commitPromises[i].lastPage >= 1
      /\ commitPromises[i].value =
           (commitPromises[i].lastPage - 1) * 100
             + commitPromises[i].lastPageCommits

C17_Witness ==
  \E i \in DOMAIN commitPromises :
    /\ commitPromises[i].via = "lastPage"
    /\ commitPromises[i].lastPage = 2
    /\ commitPromises[i].lastPageCommits = 1
    /\ commitPromises[i].value = 101

\* C18 (as claimed): a lookup that returned the estimate returned
\* max(10, floor(age * 0.3)), which is at least 10, and no lookup that was
\* given a last-page number returns the estimate.
C18_EstimateOnlyWithoutPages ==
  /\ [](\A i \in DOMAIN commitPromises :
          commitPromises[i].via = "estimate" =>
            /\ commitPromises[i].value >= 10
            /\ commitPromises[i].value =
                 (IF (commitPromises[i].repoAge * 3) \div 10 > 10
                  THEN (commitPromises[i].repoAge * 3) \div 10 ELSE 10))
  /\ [][\A i \in DOMAIN commitPromises :
          (commitPromises[i].st = "lastPage"
             /\ commitPromises[i].lastPage >= 1) =>
            commitPromises'[i].via # "estimate"]_vars

\* the candidate of step 4: the sum of the lookups' own results
Step4Candidate == ResultsOver(DOMAIN commitPromises)

RECURSIVE PushCommitsOver(_)
\* the commits carried by the push events among the events at S
PushCommitsOver(S) ==
  IF S = {} THEN 0
  ELSE LET i == CHOOSE x \in S : TRUE
       IN  (IF eventsData[i].type = "PushEvent" THEN eventsData[i].commits
            ELSE 0) + PushCommitsOver(S \ {i})

\* C19: once the lookups have settled, the events endpoint has been called
\* exactly when the candidate of step 4 is below 10; after a successful
\* events call the candidate is the push events' commit count if that is
\* greater than the candidate of step 4 and the candidate of step 4
\* otherwise; the candidate is never below that of step 4.
C19_LowCandidateTopUp ==
  /\ calls.events \in {0, 1}
  /\ (pc = "awaitEvents" \/ (pc = "done" /\ path = "normal")) =>
       /\ calls.events = 1 <=> Step4Candidate < 10
       /\ totalCommits >= Step4Candidate
  /\ ~(pc = "awaitEvents" \/ (pc = "done" /\ path = "normal")) =>
       calls.events = 0
  /\ (pc = "done" /\ responses.events = "ok") =>
       totalCommits =
         (IF PushCommitsOver(DOMAIN eventsData) > Step4Candidate
          THEN PushCommitsOver(DOMAIN eventsData) ELSE Step4Candidate)

C19_Witness ==
  /\ pc = "done"
  /\ responses.events = "ok"
  /\ Step4Candidate = 9
  /\ PushCommitsOver(DOMAIN eventsData) = 6
  /\ \E e \in DOMAIN eventsData : eventsData[e].type = "WatchEvent"
  /\ totalCommits = 9

\* what the responses to the lookup of active repository i alone amount to
Expected(i) ==
  CASE commitPromises[i].via = "contributions" ->
         contributions[activeRepos[i].name]
    [] commitPromises[i].via = "lastPage" ->
         (commitPromises[i].lastPage - 1) * 100
           + commitPromises[i].lastPageCommits
    [] commitPromises[i].via = "estimate" ->
         (IF (commitPromises[i].repoAge * 3) \div 10 > 10
          THEN (commitPromises[i].repoAge * 3) \div 10 ELSE 10)
    [] OTHER -> 0

RECURSIVE ExpectedOver(_)
ExpectedOver(S) ==
  IF S = {} THEN 0
  ELSE LET i == CHOOSE x \in S : TRUE
       IN  Expected(i) + ExpectedOver(S \ {i})

\* C20: in whatever order the lookups complete, each returns what its own
\* responses amount to, a step of one lookup changes no other lookup's
\* record and nothing else of the run but the call counts, and the
\* candidate of step 4 is the sum of those results.
C20_OrderIndependent ==
  /\ [](\A i \in DOMAIN commitPromises :
          commitPromises[i].st = "done" =>
            commitPromises[i].value = Expected(i))
  /\ []((pc = "awaitEvents" \/ (pc = "done" /\ path = "normal"
                                  /\ calls.events = 0)) =>
          totalCommits = ExpectedOver(DOMAIN commitPromises))
  /\ [][(pc = "awaitLookups" /\ pc' = "awaitLookups") =>
          /\ Cardinality({i \in DOMAIN commitPromises :
                            commitPromises'[i] # commitPromises[i]}) <= 1
          /\ \A i \in DOMAIN commitPromises :
               commitPromises[i].st = "done" =>
                 commitPromises'[i] = commitPromises[i]
          /\ UNCHANGED <<totalCommits, totalForks, publicRepos, activeRepos,
                         stats, loading>>]_vars

C20_Witness ==
  /\ pc = "done"
  /\ path = "normal"
  /\ calls.events = 0
  /\ Len(commitPromises) = 3
  /\ commitPromises[1].via = "lastPage"
  /\ commitPromises[1].value = 101
  /\ commitPromises[2].via = "contributions"
  /\ totalCommits = 185

\* C21 (as claimed): on the normal path recentRepos is the first 6 owned
\* repositories in the order in which the repository-list response holds
\* them; the sort of the active set changes neither which repositories
\* appear in it nor their order.
C21_RecentInResponseOrder ==
  (pc = "done" /\ path = "normal") =>
    stats.recentRepos = RecentRepos(NonForks(reposData))

\* every call the run has issued has completed
NoCallPending ==
  /\ pc \notin {"awaitUser", "awaitRepos", "awaitEvents"}
  /\ \A i \in DOMAIN commitPromises : commitPromises[i].st = "done"

\* C22: when every call issued completes, the run ends: from some point on
\* a snapshot is set and loading is false, and a run none of whose calls is
\* pending any more does not keep loading true.
C22_RunTerminates ==
  /\ <>[](pc = "done" /\ stats # Null /\ loading = FALSE)
  /\ (pc # "idle" /\ NoCallPending) ~> (loading = FALSE)

C22_Witness ==
  /\ pc = "done"
  /\ loading = FALSE
  /\ stats # Null
  /\ responses.events = "reject"
  /\ calls.lastPage = 1
  /\ \E i \in DOMAIN commitPromises : commitPromises[i].via = "catch"

\* The commits endpoint for a repository that holds n commits of the
\* account: the number of the last page when a page holds perPage commits
PagesOf(n, perPage) == (n + perPage - 1) \div perPage

\* and the number of commits on page p (none beyond the last page)
PageLength(n, perPage, p) ==
  Max(0, IF n - (p - 1) * perPage < perPage THEN n - (p - 1) * perPage
         ELSE perPage)

\* C23 (as claimed): a lookup that returns a count from the pagination
\* metadata returns the number of commits the account authored in the
\* repository: whenever the last page named by the first request
\* (per_page=1) and the length of that page in the second request
\* (per_page=100) are those of a repository with n such commits, the
\* lookup's value is n.
C23_PaginationCountIsActual ==
  \A i \in DOMAIN commitPromises : \A n \in LastPages :
    (/\ commitPromises[i].via = "lastPage"
     /\ commitPromises[i].lastPage = PagesOf(n, FirstPerPage)
     /\ commitPromises[i].lastPageCommits =
          PageLength(n, PerPage, commitPromises[i].lastPage))
      => commitPromises[i].value = n

\* C24: after a failed events call (a non-success status, a rejection, a
\* body that is no JSON or no list) the run has ended on the normal path:
\* totalRepos, totalForks and recentRepos are those of the repository list
\* and totalCommits still is the candidate of step 4.
C24_EventsFailureIsIgnored ==
  responses.events \in {"403", "500", "reject", "badJson", "notAList"} =>
    /\ pc = "done"
    /\ path = "normal"
    /\ loading = FALSE
    /\ stats.totalRepos = Cardinality(OwnedIdx)
    /\ stats.totalForks = ForksOver(OwnedIdx)
    /\ stats.recentRepos = RecentRepos(publicRepos)
    /\ totalCommits = Step4Candidate

C24_Witness ==
  /\ responses.events = "badJson"
  /\ path = "normal"
  /\ stats.totalRepos = 2
  /\ stats.totalForks = 2
  /\ Len(stats.recentRepos) = 2
  /\ totalCommits = 6

TotalCalls(c) ==
  c.user + c.repos + c.contributors + c.commits + c.lastPage + c.events

\* C25: a run issues one profile call, at most one repository-list call,
\* contributor calls for at most 15 repositories, at most one first commits
\* page per contributor call and one last page per first page, and at most
\* one events call: at most 48 calls, however many repositories are owned.
C25_BoundedCalls ==
  /\ issued.user <= 1
  /\ issued.repos <= 1
  /\ issued.contributors <= ActiveLimit
  /\ issued.commits <= issued.contributors
  /\ issued.lastPage <= issued.commits
  /\ issued.events <= 1
  /\ stage # "idle" => issued.user = 1
  /\ TotalCalls(issued) <= 3 + 3 * ActiveLimit
  /\ TotalCalls(issued) <= 48

C25_Witness ==
  /\ stage = "done"
  /\ TotalCalls(issued) = 48
  /\ issued.lastPage = ActiveLimit

\* C26 (as claimed): once every run has completed, the snapshot shown is
\* the one the run for the latest username computed, in whichever order the
\* runs completed.
C26_LatestUsernameWins ==
  (runs # <<>> /\ \A r \in DOMAIN runs : runs[r].st = "done") =>
    /\ runs[Len(runs)].user = username
    /\ stats = runs[Len(runs)].result

(***************************************************************************)
(* Properties of the blog loader                                           *)
(***************************************************************************)
Ids(posts) == [i \in DOMAIN posts |-> posts[i].id]

\* C10: the catalog is never changed, and whatever getBlogPost calls were
\* made before it, getBlogPosts returns the ids of the catalog in its
\* insertion order; so any two calls return the same ids in the same order.
C10_ListingStable ==
  /\ blogMetadata = Catalog
  /\ listing # Null =>
       Ids(listing) =
         << "ai-integration-fullstack", "serverless-architecture-edge",
            "graphql-federation-microservices", "observability-opentelemetry",
            "building-scalable-iot-platforms", "backend-optimization",
            "real-time-data-streaming", "microservices-communication",
            "time-series-database-optimization", "full-stack-typescript" >>

C10_Witness ==
  /\ listing # Null
  /\ listedAt = 2
  /\ returned # Null
  /\ returned.post # Null
  /\ returned.post.content = <<"b">>

CatalogIds == {Catalog[i].id : i \in DOMAIN Catalog}

\* C11: a getBlogPost call with an id the catalog lacks returns null and
\* has fetched nothing: every content fetch issued is for a catalog id, and
\* no fetch is ever in flight for another id.
C11_UnknownIdNoFetch ==
  /\ [](\A id \in RequestIds \ CatalogIds : inFlight[id] = 0)
  /\ []((returned # Null /\ returned.id \notin CatalogIds) =>
          (returned.post = Null /\ returned.fetched.status = "none"))
  /\ [][fetches' # fetches =>
          \E id \in CatalogIds \cap RequestIds :
            inFlight'[id] = inFlight[id] + 1]_vars

C11_Witness ==
  /\ returned # Null
  /\ returned.id = "does-not-exist"
  /\ returned.post = Null
  /\ loads = 2
  /\ fetches = 1

\* C12: when the content fetch of a catalog id fails (a non-success status,
\* a rejected call or a body that cannot be read), getBlogPost resolves to
\* null.
C12_FetchFailureIsNull ==
  (returned # Null
     /\ returned.fetched.status \in {"404", "500", "reject", "textReject"}) =>
    /\ returned.id \in CatalogIds
    /\ returned.post = Null

C12_Witness ==
  /\ returned # Null
  /\ returned.id = "full-stack-typescript"
  /\ returned.fetched.status = "reject"
  /\ returned.post = Null

\* the positions q at which text reads as the claim C13 has it: the line
\* ---, at least one character of header lines none of which starts with
\* ---, the line --- beginning with the newline at q, and then the body
HeaderEnds(text) ==
  {q \in 6..Len(text) :
     /\ StartsWith(text, 1, <<"-", "-", "-", "\n">>)
     /\ StartsWith(text, q, <<"\n", "-", "-", "-", "\n">>)
     /\ \A i \in 5..(q - 1) :
          (i = 5 \/ text[i - 1] = "\n") => ~StartsWith(text, i, Dashes)}

\* the body that follows the closing line at q
BodyAfter(text, q) == SubSeq(text, q + 5, Len(text))

\* a body with at least one character that is no whitespace
Written(body) == \E i \in DOMAIN body : body[i] \notin Whitespace

\* the catalog entry of id
Entry(id) == Catalog[CHOOSE i \in DOMAIN Catalog : Catalog[i].id = id]

\* C13: for a catalog id whose fetch delivers the line ---, header lines,
\* the line --- and a written body, getBlogPost returns a post whose
\* content is the body without its leading and trailing whitespace and
\* whose metadata are the catalog entry's.
C13_HeaderStripped ==
  (returned # Null /\ returned.fetched.status = "ok") =>
    \A q \in HeaderEnds(returned.fetched.text) :
      Written(BodyAfter(returned.fetched.text, q)) =>
        /\ returned.post # Null
        /\ returned.post.content = Trim(BodyAfter(returned.fetched.text, q))
        /\ returned.post.id = returned.id
        /\ returned.post.category = Entry(returned.id).category
        /\ returned.post.featured = Entry(returned.id).featured

C13_Witness ==
  /\ returned # Null
  /\ returned.id = "ai-integration-fullstack"
  /\ returned.fetched.status = "ok"
  /\ returned.fetched.text =
       <<"-", "-", "-", "\n", "a", "\n", "-", "-", "-", "\n",
         "\n", "b", " ", "b", "\n">>
  /\ returned.post # Null
  /\ returned.post.content = <<"b", " ", "b">>
  /\ returned.post.category = "Full Stack"

\* C14 (as claimed): for a catalog id whose fetch returns a success status,
\* getBlogPost returns a post for every response text.
C14_NullOnlyOnFailure ==
  (returned # Null
     /\ returned.id \in CatalogIds
     /\ returned.fetched.status = "ok") =>
    returned.post # Null

(***************************************************************************)
(* Properties of the Blog section                                          *)
(***************************************************************************)
\* C27 (as claimed): whatever was selected, closed and loaded, a post that
\* is shown is the post that is selected: a load that completes after the
\* modal was closed or another post was selected does not set selectedPost.
C27_ShownPostIsSelected ==
  selectedPost # Null => selectedPost.id = selectedPostId

\* C28 (as claimed): loadingPost is true while the load of the selected
\* post is pending and false while no post is selected.
C28_LoadingFollowsSelection ==
  /\ (selectedPostId # NullId /\ postLoads[selectedPostId] > 0) => loadingPost
  /\ selectedPostId = NullId => ~loadingPost

(***************************************************************************)
(* Properties of the contact form                                          *)
(***************************************************************************)
\* the fields of data for which validateField reports an error
Failing(data) == {f \in Fields : ValidateField(f, data[f]) # NoError}

\* C29: submitState becomes 'loading' only by a submission of a form none
\* of whose four fields fails validateField, and only the link of such a
\* form is ever waited for or opened; a submission of a form with a failing
\* field leaves submitState, the form data and the location as they are,
\* sets errors to the messages of exactly the failing fields and marks all
\* four fields touched.
C29_SubmitOnlyWhenValid ==
  /\ [](location # ThisPage => Failing(location.data) = {})
  /\ [](\A k \in DOMAIN submissions : Failing(submissions[k].data) = {})
  /\ [][/\ (submitState' = "loading" /\ submitState # "loading")
             => (HandleSubmit /\ Failing(formData) = {})
        /\ (HandleSubmit /\ Failing(formData) # {})
             => /\ submitState' = submitState
                /\ formData' = formData
                /\ location' = location
                /\ submissions' = submissions
                /\ \A f \in Failing(formData) :
                     errors'[f] = ValidateField(f, formData[f])
                /\ \A f \in Fields \ Failing(formData) :
                     errors'[f] = NoError
                /\ \A f \in Fields : touched'[f]]_vars

C29_Witness ==
  /\ submitState = "idle"
  /\ location = ThisPage
  /\ submissions = <<>>
  /\ \A f \in Fields : touched[f]
  /\ formData.name = <<"a", "b">>
  /\ formData.subject = <<"a", "b", "c">>
  /\ Failing(formData) = {"email", "message"}
  /\ errors.name = NoError
  /\ errors.subject = NoError
  /\ errors.email = "Please enter a valid email"
  /\ errors.message = "Message must be at least 10 characters"

\* C30 (as claimed): while a submission is under way, from its 'loading'
\* to the end of its delay, submitState is 'loading' and the form has not
\* been reset: no timer of an earlier submission sets 'idle' or empties the
\* fields in between.
C30_LoadingUntilDone ==
  submissions # <<>> =>
    /\ submitState = "loading"
    /\ \A f \in Fields : touched[f]

====
